---- MODULE Spec2Model ----
(***************************************************************************)
(* A model of the lazy_mut crate (src/lib.rs): the two-variant container   *)
(* LazyMut<T> = Init(fn() -> T) | Value(T), its methods, its Deref,        *)
(* DerefMut and Display implementations and the lazy_mut! declaration      *)
(* macro.  Under Spec one container is constructed, used by one caller and  *)
(* possibly cloned; under SpecRace two callers share one `static mut`.      *)
(*                                                                         *)
(* T is instantiated at the two types of the crate's documentation:        *)
(* u32 (`let mut num: u32 = 2 + 3`) and Vec<u64> (`static mut VEC`).       *)
(***************************************************************************)
EXTENDS Integers, Sequences, FiniteSets, TLC

\* Bound of the model: the longest Vec<u64> a caller builds.
MaxLen == 3

VARIABLES
    lm,      \* the container: [ty, tag |-> "Init", f] or [ty, tag |-> "Value", val]
    alive,   \* FALSE once unwrap(self) has consumed the container
    calls,   \* how many times an initializer has been invoked
    ret,     \* what the last operation did: its name, the variant it met, its outcome
    ctor,    \* how the container was constructed
    base,    \* the value last assigned through `*x = v`, if any
    log,     \* the elements pushed through mutable references since then
    cl,      \* the clone taken of the container, or NoClone
    ccalls,  \* how many times the clone's operations have invoked an initializer
    csrc,    \* the container as it was when it was cloned
    clog,    \* the elements pushed into the clone
    th       \* per caller of a shared `static mut`: where it is inside init()

cloneVars == <<cl, ccalls, csrc, clog>>

vars == <<lm, alive, calls, ctor, base, log, cloneVars, th, ret>>

----------------------------------------------------------------------------
(* Values, expressions and initializers *)

Types == {"u32", "Vec"}

\* Elements pushed in the documentation's examples (lib.rs:60-61, 77-78).
Elems == {17, 64}

None == [some |-> FALSE]
Some(v) == [some |-> TRUE, v |-> v]

\* The expression $e of a declaration, e.g. `2 + 3`, `Vec::new()`, `vec![64]`.
Exprs(ty) ==
    IF ty = "u32"
    THEN {[k |-> "add", a |-> 2, b |-> 3], [k |-> "lit", n |-> 0]}
    ELSE {[k |-> "Vec::new"], [k |-> "vec", items |-> <<64>>]}

\* Evaluation of a declaration's expression (operands are far below 2^32).
Eval(e) ==
    CASE e.k = "add" -> e.a + e.b
      [] e.k = "lit" -> e.n
      [] e.k = "Vec::new" -> <<>>
      [] e.k = "vec" -> e.items

\* A function pointer fn() -> T: `fn init() -> $T { $e }`, or `Vec::new` itself.
FnPtr(ty, e) == [ty |-> ty, body |-> e]

InitFns(ty) == {FnPtr(ty, e) : e \in Exprs(ty)}

\* Invoking a function pointer, `init()`.
Call(f) == Eval(f.body)

\* Values a caller constructs or assigns directly (`*VEC = vec![1, 2, 3]`, lib.rs:6).
DirectVals(ty) == IF ty = "u32" THEN {7} ELSE {<<1, 2, 3>>, <<>>}

----------------------------------------------------------------------------
(* The enum LazyMut<T> *)

LazyMutInit(ty, f) == [ty |-> ty, tag |-> "Init", f |-> f]

LazyMutValue(ty, v) == [ty |-> ty, tag |-> "Value", val |-> v]

\* The four declaration forms of lazy_mut!; each expands to LazyMut::Init(init).
MacroForms == {"let mut", "static mut", "pub static mut", "pub(vis) static mut"}

\* Mutant: the macro evaluates $e at the declaration instead of deferring it.
lazy_mut_eager(form, ty, e) == LazyMutValue(ty, Eval(e))

lazy_mut(form, ty, e) == LazyMutInit(ty, FnPtr(ty, e))

----------------------------------------------------------------------------
(* The methods, as functions from the receiver to                          *)
(* [self: the receiver afterwards, kind: "ok" or "panic", out: the result, *)
(*  msg: the panic message, n: initializer invocations made]               *)

Ok(self, out, n) == [self |-> self, kind |-> "ok", out |-> out, msg |-> "", n |-> n]

Panic(self, msg, n) == [self |-> self, kind |-> "panic", out |-> "!", msg |-> msg, n |-> n]

\* Mutant: unwrap in the manner of Option::unwrap, refusing a container without a value.
unwrap_strict(self) ==
    IF self.tag = "Init"
    THEN Panic(self, "called unwrap on an uninitialized value", 0)
    ELSE Ok(self, self.val, 0)

unwrap(self) ==
    IF self.tag = "Init"
    THEN Ok(self, Call(self.f), 1)
    ELSE Ok(self, self.val, 0)

\* Mutant: the initializer is run but `*self = new` is missing.
init_nostore(self) ==
    IF self.tag = "Init"
    THEN Ok(self, "&mut self", 1)
    ELSE Ok(self, "&mut self", 0)

\* Mutant: the initializer is invoked once to test it and once more to store its result.
init_twice(self) ==
    IF self.tag = "Init"
    THEN Ok(LazyMutValue(self.ty, Call(self.f)), "&mut self", 2)
    ELSE Ok(self, "&mut self", 0)

\* Mutant: the `other` arm stores a fresh default value instead of returning.
init_reset(self) ==
    IF self.tag = "Init"
    THEN Ok(LazyMutValue(self.ty, Call(self.f)), "&mut self", 1)
    ELSE Ok(LazyMutValue(self.ty, IF self.ty = "u32" THEN 0 ELSE <<>>), "&mut self", 0)

init(self) ==
    IF self.tag = "Init"
    THEN Ok(LazyMutValue(self.ty, Call(self.f)), "&mut self", 1)
    ELSE Ok(self, "&mut self", 0)

\* The three program points of init() (and of deref_mut, which calls it), one
\* memory access of the container each.
\* `match self { &mut Init(init) => ..., other => return other }`: the read.
init_match(self) ==
    IF self.tag = "Init"
    THEN [hit |-> TRUE, f |-> self.f]
    ELSE [hit |-> FALSE, f |-> "-"]

\* `Value(init())`: the invocation, on the function pointer copied out by the match.
init_new(f) == LazyMutValue(f.ty, Call(f))

\* Mutant: the store is made only if the container is still uninitialized.
init_store_if_pending(self, new) == IF self.tag = "Init" THEN new ELSE self

\* `*self = new`: the write, whatever the container holds by then.
init_store(self, new) == new

\* Mutant: the container is emptied with mem::replace before the match and the
\* panicking arm does not put the value back.
init_once_take(self) ==
    IF self.tag = "Init"
    THEN Ok(LazyMutValue(self.ty, Call(self.f)), "&mut self", 1)
    ELSE Panic(LazyMutInit(self.ty, FnPtr(self.ty, CHOOSE e \in Exprs(self.ty) : TRUE)),
               "call to 'init_once' on already initialized value", 0)

\* Mutant: the initializer is run but `*self = new` is missing.
init_once_nostore(self) ==
    IF self.tag = "Init"
    THEN Ok(self, "&mut self", 1)
    ELSE Panic(self, "call to 'init_once' on already initialized value", 0)

\* Mutant: the already-initialized arm returns like init instead of panicking.
init_once_lenient(self) ==
    IF self.tag = "Init"
    THEN Ok(LazyMutValue(self.ty, Call(self.f)), "&mut self", 1)
    ELSE Ok(self, "&mut self", 0)

\* (the panic message's backquotes are written as quotes here)
init_once(self) ==
    IF self.tag = "Init"
    THEN Ok(LazyMutValue(self.ty, Call(self.f)), "&mut self", 1)
    ELSE Panic(self, "call to 'init_once' on already initialized value", 0)

get(this) ==
    IF this.tag = "Init"
    THEN Ok(this, None, 0)
    ELSE Ok(this, Some(this.val), 0)

\* Mutant: get_mut initializes first, as deref_mut does.
get_mut_autoinit(this) ==
    IF this.tag = "Init"
    THEN Ok(LazyMutValue(this.ty, Call(this.f)), Some(Call(this.f)), 1)
    ELSE Ok(this, Some(this.val), 0)

get_mut(this) ==
    IF this.tag = "Init"
    THEN Ok(this, None, 0)
    ELSE Ok(this, Some(this.val), 0)

is_initialized(self) ==
    IF self.tag = "Init"
    THEN Ok(self, FALSE, 0)
    ELSE Ok(self, TRUE, 0)

\* T's own Clone: a u32 is copied, a Vec<u64> is copied element by element.
TClone(ty, v) == IF ty = "u32" THEN v ELSE [i \in 1..Len(v) |-> v[i]]

\* Mutant: a clone that initializes what it copies, so that it never holds an initializer.
clone_eager(self) ==
    IF self.tag = "Init"
    THEN Ok(self, LazyMutValue(self.ty, Call(self.f)), 1)
    ELSE Ok(self, LazyMutValue(self.ty, TClone(self.ty, self.val)), 0)

\* #[derive(Clone)]: the active variant with a clone of its payload; a function
\* pointer is cloned by copying it.
clone(self) ==
    IF self.tag = "Init"
    THEN Ok(self, LazyMutInit(self.ty, self.f), 0)
    ELSE Ok(self, LazyMutValue(self.ty, TClone(self.ty, self.val)), 0)

\* Mutant: an immutable dereference that initializes silently.
deref_autoinit(self) ==
    IF self.tag = "Init"
    THEN Ok(LazyMutValue(self.ty, Call(self.f)), Call(self.f), 1)
    ELSE Ok(self, self.val, 0)

deref(self) ==
    IF self.tag = "Init"
    THEN Panic(self, "cannot dereference uninitialized value", 0)
    ELSE Ok(self, self.val, 0)

\* Mutant: the call `self.init()` is missing.
deref_mut_noinit(self) ==
    IF self.tag = "Init"
    THEN Panic(self, "internal error: entered unreachable code", 0)
    ELSE Ok(self, self.val, 0)

deref_mut(self) ==
    LET r == init(self) IN
    IF r.self.tag = "Init"
    THEN Panic(r.self, "internal error: entered unreachable code", r.n)
    ELSE Ok(r.self, r.self.val, r.n)

\* T's own Display; of the two types only u32 implements it.
TFmt(v) == ToString(v)

\* What the Formatter's underlying writer does with the text handed to it.
Sinks == {"accepts", "fails"}

\* Mutant: the value is reached through Deref (`write!(f, "{}", **self)`), which
\* panics on a container that is not initialized.
fmt_via_deref(self, sink) ==
    IF self.tag = "Init"
    THEN Panic(self, "cannot dereference uninitialized value", 0)
    ELSE Ok(self, IF sink = "accepts" THEN [res |-> "Ok", text |-> TFmt(self.val)]
                  ELSE [res |-> "Err"], 0)

\* fmt returns the fmt::Result of the write: Ok(()) with the text written, or the
\* writer's fmt::Error; either way it returns.
fmt(self, sink) ==
    LET text == IF self.tag = "Init" THEN "{uninitialized}" ELSE TFmt(self.val) IN
    Ok(self, IF sink = "accepts" THEN [res |-> "Ok", text |-> text] ELSE [res |-> "Err"], 0)

----------------------------------------------------------------------------
(* Construction *)

\* No clone has been taken.
NoClone == [tag |-> "NoClone"]

\* The callers of a shared `static mut` (see SpecRace).
Callers == {1, 2}

\* A caller outside init().
AtStart == [pc |-> "start", hit |-> FALSE, f |-> "-", new |-> "-"]

NotShared == [t \in Callers |-> AtStart]

Constructed(c, how) ==
    /\ lm = c
    /\ alive = TRUE
    /\ calls = 0
    /\ ctor = how
    /\ ret = [op |-> "new", pre |-> "none", kind |-> "ok", out |-> "LazyMut", msg |-> ""]
    /\ base = None
    /\ log = <<>>
    /\ cl = NoClone
    /\ ccalls = 0
    /\ csrc = NoClone
    /\ clog = <<>>
    /\ th = NotShared

Init ==
    \E ty \in Types :
        \/ \E f \in InitFns(ty) :
              Constructed(LazyMutInit(ty, f), [kind |-> "Init", form |-> "LazyMut::Init", f |-> f])
        \/ \E form \in MacroForms, e \in Exprs(ty) :
              Constructed(lazy_mut(form, ty, e), [kind |-> "Init", form |-> form, f |-> FnPtr(ty, e)])
        \/ \E v \in DirectVals(ty) :
              Constructed(LazyMutValue(ty, v), [kind |-> "Value", form |-> "LazyMut::Value", v |-> v])

----------------------------------------------------------------------------
(* One action per operation of the caller *)

\* The observable record of a call: r is the method's result, met on variant lm.tag.
Returned(op, r) ==
    ret' = [op |-> op, pre |-> lm.tag, kind |-> r.kind, out |-> r.out, msg |-> r.msg]

\* A call of a method on the live container that makes no mutation afterwards.
Method(op, r) ==
    /\ alive
    /\ lm' = r.self
    /\ calls' = calls + r.n
    /\ Returned(op, r)
    /\ UNCHANGED <<alive, ctor, base, log, cloneVars, th>>

DoInit == Method("init", init(lm))

DoInitOnce == Method("init_once", init_once(lm))

DoGet == Method("get", get(lm))

DoGetMut == Method("get_mut", get_mut(lm))

DoIsInitialized == Method("is_initialized", is_initialized(lm))

DoDeref == Method("deref", deref(lm))

DoDerefMut == Method("deref_mut", deref_mut(lm))

\* `{}` formatting; LazyMut<T>: Display only where T: Display.
DoFmt == \E sink \in Sinks : lm.ty = "u32" /\ Method("fmt", fmt(lm, sink))

\* `x.push(e)`: auto-deref takes deref_mut, then Vec::push through the reference.
DoPush ==
    \E e \in Elems :
        LET r == deref_mut(lm) IN
        /\ alive
        /\ lm.ty = "Vec"
        /\ calls' = calls + r.n
        /\ Returned("push", r)
        /\ IF r.kind = "ok"
           THEN /\ Len(r.self.val) < MaxLen
                /\ lm' = [r.self EXCEPT !.val = Append(@, e)]
                /\ log' = Append(log, e)
           ELSE /\ lm' = r.self
                /\ log' = log
        /\ UNCHANGED <<alive, ctor, base, cloneVars, th>>

\* `*x = v`: deref_mut, then the old value is dropped and v stored in its place.
DoAssign ==
    \E v \in DirectVals(lm.ty) :
        LET r == deref_mut(lm) IN
        /\ alive
        /\ calls' = calls + r.n
        /\ Returned("assign", r)
        /\ IF r.kind = "ok"
           THEN /\ lm' = [r.self EXCEPT !.val = v]
                /\ base' = Some(v)
                /\ log' = <<>>
           ELSE /\ lm' = r.self
                /\ UNCHANGED <<base, log>>
        /\ UNCHANGED <<alive, ctor, cloneVars, th>>

\* `if let Some(v) = LazyMut::get_mut(&mut x) { v.push(e) }`
DoGetMutPush ==
    \E e \in Elems :
        LET r == get_mut(lm) IN
        /\ alive
        /\ lm.ty = "Vec"
        /\ calls' = calls + r.n
        /\ Returned("get_mut_push", r)
        /\ IF r.out.some
           THEN /\ Len(r.self.val) < MaxLen
                /\ lm' = [r.self EXCEPT !.val = Append(@, e)]
                /\ log' = Append(log, e)
           ELSE /\ lm' = r.self
                /\ log' = log
        /\ UNCHANGED <<alive, ctor, base, cloneVars, th>>

\* unwrap(self) takes the container by value: it is gone afterwards.
DoUnwrap ==
    LET r == unwrap(lm) IN
    /\ alive
    /\ alive' = FALSE
    /\ lm' = r.self
    /\ calls' = calls + r.n
    /\ Returned("unwrap", r)
    /\ UNCHANGED <<ctor, base, log, cloneVars, th>>

\* The record of a call on the clone: r is the method's result, met on variant cl.tag.
CloneReturned(op, r) ==
    ret' = [op |-> op, pre |-> cl.tag, kind |-> r.kind, out |-> r.out, msg |-> r.msg]

\* `let mut y = x.clone();`
DoClone ==
    LET r == clone(lm) IN
    /\ alive
    /\ cl = NoClone
    /\ cl' = r.out
    /\ ccalls' = ccalls + r.n
    /\ csrc' = lm
    /\ lm' = r.self
    /\ ret' = [op |-> "clone", pre |-> lm.tag, kind |-> r.kind, out |-> r.out, msg |-> r.msg]
    /\ UNCHANGED <<alive, calls, ctor, base, log, clog, th>>

\* `y.init();` on the clone
DoCloneInit ==
    LET r == init(cl) IN
    /\ cl # NoClone
    /\ cl' = r.self
    /\ ccalls' = ccalls + r.n
    /\ CloneReturned("clone.init", r)
    /\ UNCHANGED <<lm, alive, calls, ctor, base, log, csrc, clog, th>>

\* `y.push(e);` on the clone
DoClonePush ==
    \E e \in Elems :
        LET r == deref_mut(cl) IN
        /\ cl # NoClone
        /\ cl.ty = "Vec"
        /\ ccalls' = ccalls + r.n
        /\ CloneReturned("clone.push", r)
        /\ IF r.kind = "ok"
           THEN /\ Len(r.self.val) < MaxLen
                /\ cl' = [r.self EXCEPT !.val = Append(@, e)]
                /\ clog' = Append(clog, e)
           ELSE /\ cl' = r.self
                /\ clog' = clog
        /\ UNCHANGED <<lm, alive, calls, ctor, base, log, csrc, th>>

Next ==
    \/ DoInit
    \/ DoInitOnce
    \/ DoGet
    \/ DoGetMut
    \/ DoIsInitialized
    \/ DoDeref
    \/ DoDerefMut
    \/ DoFmt
    \/ DoPush
    \/ DoAssign
    \/ DoGetMutPush
    \/ DoUnwrap

Spec == Init /\ [][Next]_vars

\* A container and its clone: each is initialized and mutated on its own.
NextClone ==
    \/ DoInit
    \/ DoPush
    \/ DoClone
    \/ DoCloneInit
    \/ DoClonePush

SpecClone == Init /\ [][NextClone]_vars

----------------------------------------------------------------------------
(* Two callers of one shared `static mut` container, without mutual        *)
(* exclusion: each runs `X.push(e)` (or `*X = v`), that is deref_mut, whose   *)
(* init() reads the container, invokes the initializer and writes the        *)
(* container in three separate steps.  A push through the returned           *)
(* reference acts on the value the static holds at that moment, the          *)
(* reference being the address of the payload inside the static.             *)

\* A container that can be shared: any construction but a `let mut` local.
RaceInit == Init /\ ctor.form # "let mut"

RaceReturned(op, t) ==
    ret' = [op |-> op, pre |-> lm.tag, kind |-> "ok", out |-> t, msg |-> ""]

\* lib.rs:168-171: the match of init() on the shared container.
RaceMatch(t) ==
    LET m == init_match(lm) IN
    /\ th[t].pc = "start"
    /\ th' = [th EXCEPT ![t] = [pc |-> IF m.hit THEN "matched" ELSE "inited",
                                hit |-> m.hit, f |-> m.f, new |-> "-"]]
    /\ RaceReturned("race.match", t)
    /\ UNCHANGED <<lm, alive, calls, ctor, base, log, cloneVars>>

\* lib.rs:169: the initializer is invoked and its result wrapped.
RaceCall(t) ==
    /\ th[t].pc = "matched"
    /\ th' = [th EXCEPT ![t].pc = "called", ![t].new = init_new(th[t].f)]
    /\ calls' = calls + 1
    /\ RaceReturned("race.call", t)
    /\ UNCHANGED <<lm, alive, ctor, base, log, cloneVars>>

\* lib.rs:172: the store into the shared container.
RaceStore(t) ==
    /\ th[t].pc = "called"
    /\ lm' = init_store(lm, th[t].new)
    /\ th' = [th EXCEPT ![t].pc = "inited"]
    /\ RaceReturned("race.store", t)
    /\ UNCHANGED <<alive, calls, ctor, base, log, cloneVars>>

\* lib.rs:234-237 and the caller's mutation through the reference returned.
RaceMutate(t) ==
    /\ th[t].pc = "inited"
    /\ IF lm.tag = "Init"
       THEN /\ th' = [th EXCEPT ![t].pc = "panicked"]
            /\ ret' = [op |-> "race.mutate", pre |-> lm.tag, kind |-> "panic", out |-> t,
                       msg |-> "internal error: entered unreachable code"]
            /\ UNCHANGED <<lm, base, log>>
       ELSE /\ th' = [th EXCEPT ![t].pc = "done"]
            /\ RaceReturned("race.mutate", t)
            /\ IF lm.ty = "Vec"
               THEN \E e \in Elems :
                        /\ Len(lm.val) < MaxLen
                        /\ lm' = [lm EXCEPT !.val = Append(@, e)]
                        /\ log' = Append(log, e)
                        /\ base' = base
               ELSE \E v \in DirectVals(lm.ty) :
                        /\ lm' = [lm EXCEPT !.val = v]
                        /\ base' = Some(v)
                        /\ log' = <<>>
    /\ UNCHANGED <<alive, calls, ctor, cloneVars>>

NextRace ==
    \/ \E t \in Callers : RaceMatch(t)
    \/ \E t \in Callers : RaceCall(t)
    \/ \E t \in Callers : RaceStore(t)
    \/ \E t \in Callers : RaceMutate(t)

SpecRace == RaceInit /\ [][NextRace]_vars

----------------------------------------------------------------------------
(* Properties *)

\* The operations that only take a mutable reference through deref_mut.
DerefMutOps == {"deref_mut", "push", "assign"}

\* What the caller put into the container: the constructed or last assigned
\* value, or else the initializer's result, followed by the elements pushed.
Intended ==
    (IF base.some THEN base.v
     ELSE IF ctor.kind = "Init" THEN Call(ctor.f) ELSE ctor.v) \o log

\* C1: init() on a Pending container leaves it Ready holding exactly the result
\* of one invocation of the stored initializer; init() on a Ready container
\* changes nothing and invokes nothing.
C1_InitThenNoOp ==
    [][ret'.op = "init" =>
          /\ ret'.kind = "ok"
          /\ lm'.tag = "Value"
          /\ (lm.tag = "Init" => lm'.val = Call(lm.f) /\ calls' = calls + 1)
          /\ (lm.tag = "Value" => lm' = lm /\ calls' = calls)]_vars

\* A second init() has run on a container declared as `2 + 3`: it holds 5 and
\* the initializer ran once.
C1_Witness ==
    /\ ret.op = "init" /\ ret.pre = "Value"
    /\ ctor.kind = "Init" /\ ctor.f.body.k = "add"
    /\ ~base.some
    /\ calls = 1
    /\ lm.val = 5

\* Exactly one of the two variants, with that variant's payload and no other.
OneVariant ==
    \/ lm.tag = "Init" /\ DOMAIN lm = {"ty", "tag", "f"} /\ lm.f \in InitFns(lm.ty)
    \/ lm.tag = "Value" /\ DOMAIN lm = {"ty", "tag", "val"}

\* C2: in every state exactly one variant is active, and no operation takes a
\* Ready container back to Pending: is_initialized() never goes from true to false.
C2_OneDirectional ==
    /\ []OneVariant
    /\ [][is_initialized(lm).out => lm'.tag = "Value" /\ is_initialized(lm').out]_vars

\* A container constructed Pending was initialized, init_once then failed on it,
\* and it is still Ready.
C2_Witness ==
    /\ ret.op = "init_once" /\ ret.kind = "panic"
    /\ ctor.kind = "Init" /\ calls = 1
    /\ lm.tag = "Value"
    /\ alive

\* C3: deref of a Pending container panics, invokes no initializer and leaves it
\* Pending; deref of a Ready container returns the held value and changes nothing.
C3_DerefNeverInitializes ==
    [][ret'.op = "deref" =>
          /\ lm' = lm
          /\ calls' = calls
          /\ (lm.tag = "Init" =>
                 /\ ret'.kind = "panic"
                 /\ ret'.msg = "cannot dereference uninitialized value")
          /\ (lm.tag = "Value" => ret'.kind = "ok" /\ ret'.out = lm.val)]_vars

\* deref has panicked on a Pending container and nothing was initialized.
C3_Witness ==
    /\ ret.op = "deref" /\ ret.pre = "Init" /\ ret.kind = "panic"
    /\ lm.tag = "Init"
    /\ calls = 0

\* C4: deref_mut succeeds in both states; on Pending it runs the initializer
\* once and returns a reference to the fresh value, on Ready it returns a
\* reference to the existing value and runs nothing; the container is Ready
\* afterwards, and an element pushed through the reference is in the value.
C4_DerefMutInitializes ==
    [][ret'.op \in DerefMutOps =>
          /\ ret'.kind = "ok"
          /\ is_initialized(lm').out
          /\ (lm.tag = "Init" => ret'.out = Call(lm.f) /\ calls' = calls + 1)
          /\ (lm.tag = "Value" => ret'.out = lm.val /\ calls' = calls)
          /\ (ret'.op = "deref_mut" => lm'.val = ret'.out)
          /\ (ret'.op = "push" => \E e \in Elems : lm'.val = Append(ret'.out, e))]_vars

\* An element was pushed into a container that was Pending: it is Ready and
\* holds the initializer's result followed by the element.
C4_Witness ==
    /\ ret.op = "push" /\ ret.pre = "Init" /\ ret.kind = "ok"
    /\ lm.tag = "Value"
    /\ calls = 1
    /\ Len(lm.val) = Len(Call(ctor.f)) + 1

\* C5: init_once() on a Ready container panics, invokes no initializer and
\* leaves the held value as it was.
C5_InitOnceOnReadyPanics ==
    [][ret'.op = "init_once" /\ lm.tag = "Value" =>
          /\ ret'.kind = "panic"
          /\ lm' = lm
          /\ calls' = calls]_vars

\* init_once has panicked on a container constructed Ready, with no initializer run.
C5_Witness ==
    /\ ret.op = "init_once" /\ ret.pre = "Value" /\ ret.kind = "panic"
    /\ ctor.kind = "Value"
    /\ calls = 0

\* C6: an operation fails exactly when it is deref on Pending or init_once on
\* Ready; every other operation in either state returns normally, and the
\* unreachable!() arm of deref_mut is never entered.
C6_OnlyTwoFailures ==
    /\ ret.kind = "panic" <=>
           \/ ret.op = "deref" /\ ret.pre = "Init"
           \/ ret.op = "init_once" /\ ret.pre = "Value"
    /\ ret.msg # "internal error: entered unreachable code"

\* deref_mut has met a Pending container and returned normally.
C6_Witness ==
    /\ ret.op = "deref_mut" /\ ret.pre = "Init" /\ ret.kind = "ok"
    /\ lm.tag = "Value"

\* C7: mutations made through mutable references persist: a Ready Vec holds the
\* initializer's result (or the constructed or last assigned value) followed by
\* the elements pushed since, in order; no later init() or deref_mut re-runs the
\* initializer or resets the value.
C7_MutationsPersist ==
    /\ lm.ty = "Vec" /\ lm.tag = "Value" => lm.val = Intended
    /\ lm.ty = "Vec" /\ log # <<>> => lm.tag = "Value"
    /\ ctor.kind = "Init" => calls <= 1

\* `static mut VEC: Vec<u64> = Vec::new()`, then push(17), push(64): [17, 64].
C7_Witness ==
    /\ lm.ty = "Vec"
    /\ ctor.kind = "Init" /\ ctor.f.body.k = "Vec::new"
    /\ ~base.some
    /\ ret.op = "push"
    /\ log = <<17, 64>>
    /\ lm.val = <<17, 64>>

\* C8: get, get_mut and is_initialized change nothing and invoke nothing; get
\* and get_mut return Some of the held value exactly on Ready and None exactly
\* on Pending, is_initialized() is true exactly on Ready and so agrees with
\* get(..).is_some(); get_mut on Pending does not initialize.
C8_PureObservers ==
    /\ [](is_initialized(lm).out = get(lm).out.some)
    /\ [][ret'.op \in {"get", "get_mut", "is_initialized", "get_mut_push"} =>
             /\ ret'.kind = "ok"
             /\ calls' = calls
             /\ lm'.tag = lm.tag
             /\ (ret'.op # "get_mut_push" => lm' = lm)
             /\ (ret'.op # "is_initialized" =>
                    ret'.out = IF lm.tag = "Value" THEN Some(lm.val) ELSE None)
             /\ (ret'.op = "is_initialized" => ret'.out = (lm.tag = "Value"))]_vars

\* get_mut has met a Pending container: None, still Pending, nothing invoked.
C8_Witness ==
    /\ ret.op = "get_mut" /\ ret.pre = "Init"
    /\ ret.out = None
    /\ lm.tag = "Init"
    /\ calls = 0

\* C9: right after construction nothing has run: a container built with an
\* initializer, directly or by any form of lazy_mut!, is Pending and holds that
\* initializer; a container built with a value is Ready and get returns it.
C9_Construction ==
    ret.op = "new" =>
        /\ calls = 0
        /\ (ctor.kind = "Init" =>
               /\ lm = LazyMutInit(lm.ty, ctor.f)
               /\ is_initialized(lm).out = FALSE
               /\ get(lm).out = None)
        /\ (ctor.kind = "Value" =>
               /\ is_initialized(lm).out = TRUE
               /\ get(lm).out = Some(ctor.v))

\* A `static mut` declared through lazy_mut!, before any use.
C9_Witness ==
    /\ ret.op = "new"
    /\ ctor.form = "static mut"
    /\ lm.tag = "Init"
    /\ calls = 0

\* C10: unwrap() returns normally and consumes the container: on Pending it
\* returns the result of one invocation of the initializer, on Ready the held
\* value with the mutations made to it, invoking nothing.
C10_Unwrap ==
    [][ret'.op = "unwrap" =>
          /\ ret'.kind = "ok"
          /\ alive /\ ~alive'
          /\ (lm.tag = "Init" => ret'.out = Call(lm.f) /\ calls' = calls + 1)
          /\ (lm.tag = "Value" => ret'.out = lm.val /\ calls' = calls)
          /\ (lm.tag = "Value" /\ lm.ty = "Vec" => ret'.out = Intended)]_vars

\* unwrap of a Ready Vec into which 17 and 64 were pushed has returned [17, 64].
C10_Witness ==
    /\ ret.op = "unwrap" /\ ret.pre = "Value"
    /\ ~alive
    /\ lm.ty = "Vec"
    /\ log = <<17, 64>>
    /\ ret.out = <<17, 64>>

\* C11: Display formatting changes nothing and invokes nothing in either state;
\* on a Pending container the text written is exactly {uninitialized}, on a Ready
\* container it is exactly the text of the held value's own Display.
C11_DisplayToleratesBoth ==
    [][ret'.op = "fmt" =>
          /\ ret'.kind = "ok"
          /\ lm' = lm
          /\ calls' = calls
          /\ (ret'.out.res = "Ok" /\ lm.tag = "Init" => ret'.out.text = "{uninitialized}")
          /\ (ret'.out.res = "Ok" /\ lm.tag = "Value" => ret'.out.text = ToString(lm.val))]_vars

\* A Pending container was formatted: the sentinel was written, it is still
\* Pending and no initializer ran.
C11_Witness ==
    /\ ret.op = "fmt" /\ ret.pre = "Init"
    /\ ret.out = [res |-> "Ok", text |-> "{uninitialized}"]
    /\ lm.tag = "Init"
    /\ calls = 0

\* The operations that run the initializer of a Pending container.
InitializingOps == {"init", "init_once", "deref_mut", "push", "assign", "unwrap"}

\* C12: over any sequence of operations on one container the initializer is
\* invoked at most once, and only by an init, init_once, deref_mut or unwrap
\* that meets the container Pending; none of them meets it Pending twice.
C12_AtMostOnce ==
    [][/\ calls' \in {calls, calls + 1}
       /\ calls' <= 1
       /\ (calls' # calls =>
              /\ lm.tag = "Init"
              /\ calls = 0
              /\ ret'.op \in InitializingOps)
       /\ (ret'.op \in InitializingOps /\ lm.tag = "Init" /\ alive => calls' = calls + 1)]_vars

\* After initialization by a push, init, deref_mut and unwrap followed; the
\* initializer ran once in all.
C12_Witness ==
    /\ ctor.kind = "Init"
    /\ ret.op = "unwrap" /\ ret.pre = "Value"
    /\ log # <<>>
    /\ ~base.some
    /\ calls = 1

\* C13: on a Pending container init_once() does what init() does: one
\* invocation of the initializer, the container Ready with its result, a normal
\* return; on a Ready container the two differ, init_once() panicking where
\* init() returns.
C13_InitOnceLikeInit ==
    /\ [](lm.tag = "Value" => init_once(lm).kind = "panic" /\ init(lm).kind = "ok")
    /\ [][ret'.op = "init_once" /\ lm.tag = "Init" =>
             LET r == init(lm) IN
             /\ lm' = r.self
             /\ calls' = calls + r.n
             /\ ret'.kind = r.kind /\ ret'.out = r.out /\ ret'.msg = r.msg
             /\ calls' = calls + 1
             /\ lm' = LazyMutValue(lm.ty, Call(lm.f))]_vars

\* init_once has met a Pending container: it returned, the container holds the
\* initializer's result and the initializer ran once.
C13_Witness ==
    /\ ret.op = "init_once" /\ ret.pre = "Init" /\ ret.kind = "ok"
    /\ lm = LazyMutValue(lm.ty, Call(ctor.f))
    /\ calls = 1

\* What the clone's owner put into it: the value the original held when it was
\* cloned, or else the initializer's result, followed by the elements pushed.
CloneIntended ==
    (IF csrc.tag = "Init" THEN Call(csrc.f) ELSE csrc.val) \o clog

\* C14: a clone of a Pending container is Pending with the same initializer and
\* no value, a clone of a Ready container is Ready with a copy of the value as it
\* was then; cloning runs nothing. Afterwards the two are independent: an
\* operation on one leaves the other's variant, value and invocation count as
\* they were, and each runs the initializer itself when it is first initialized.
C14_CloneIndependent ==
    /\ [](cl # NoClone /\ cl.ty = "Vec" /\ cl.tag = "Value" => cl.val = CloneIntended)
    /\ [](lm.ty = "Vec" /\ lm.tag = "Value" => lm.val = Intended)
    /\ [][/\ (ret'.op = "clone" =>
                 /\ lm' = lm /\ calls' = calls /\ ccalls' = ccalls
                 /\ (lm.tag = "Init" => cl' = LazyMutInit(lm.ty, lm.f))
                 /\ (lm.tag = "Value" => cl' = LazyMutValue(lm.ty, lm.val)))
          /\ (ret'.op \in {"clone.init", "clone.push"} =>
                 /\ lm' = lm /\ calls' = calls
                 /\ ret'.kind = "ok"
                 /\ cl'.tag = "Value"
                 /\ (cl.tag = "Init" /\ ret'.op = "clone.init" => cl'.val = Call(cl.f))
                 /\ (cl.tag = "Init" => ccalls' = ccalls + 1)
                 /\ (cl.tag = "Value" => ccalls' = ccalls))
          /\ (ret'.op \in {"init", "push"} =>
                 /\ cl' = cl /\ ccalls' = ccalls
                 /\ (lm.tag = "Init" => calls' = calls + 1))]_vars

\* `Vec::new` was cloned while Pending; 17 went into the original and 64 into
\* the clone: each ran the initializer once and holds its own element only.
C14_Witness ==
    /\ lm.ty = "Vec"
    /\ csrc.tag = "Init" /\ csrc.f.body.k = "Vec::new"
    /\ calls = 1 /\ ccalls = 1
    /\ lm.tag = "Value" /\ lm.val = <<17>>
    /\ cl.tag = "Value" /\ cl.val = <<64>>

\* C15: the Pending->Ready transition is not atomic. Every caller that saw the
\* shared container Pending invokes the initializer itself, and its store is
\* unconditional: after it the container holds a fresh initializer result,
\* whatever another caller had installed and pushed or assigned before.
C15_TransitionNotAtomic ==
    /\ [](calls = Cardinality({t \in Callers : th[t].hit /\ th[t].pc # "matched"}))
    /\ [][ret'.op = "race.store" =>
             /\ ctor.kind = "Init"
             /\ lm' = LazyMutValue(lm.ty, Call(ctor.f))]_vars

\* Both callers saw `Vec::new` Pending and the initializer ran twice; one
\* stored and pushed 17, then the other stored: the container holds [] again.
C15_Witness ==
    /\ lm.ty = "Vec"
    /\ ctor.kind = "Init" /\ ctor.f.body.k = "Vec::new"
    /\ \A t \in Callers : th[t].hit
    /\ calls = 2
    /\ ret.op = "race.store" /\ ret.pre = "Value"
    /\ log = <<17>>
    /\ lm.tag = "Value" /\ lm.val = <<>>

====
